---- MODULE Spec2Model ----
(***************************************************************************)
(* Model of the paginated query functions (FindX / QueryX), of the         *)
(* change-data-capture decoder (GetChangedEntities) and of the custom JSON *)
(* decoders (MaybeDeleted, Date, TrialBalance) of the QuickBooks client.   *)
(* One call runs at a time: Init picks the operation, the actions are the  *)
(* steps of that call between two network requests; a decoder is one step  *)
(* from its input to its output.                                           *)
(*                                                                         *)
(* Every FindX / QueryX of the repository is the same code up to the       *)
(* entity name (FindClasses, FindAccounts, FindEmployees, FindVendors,     *)
(* FindPurchases, ...); the model follows FindClasses / QueryClasses.      *)
(***************************************************************************)
EXTENDS Integers, Sequences, FiniteSets, TLC

\* ---------------------------------------------------------------------------
\* Bounds
\* ---------------------------------------------------------------------------

\* Largest totalCount a response reports, and length of the server's list.
MaxTotal == 5

\* Page size of the page loop.  The source sets 1000; the model scales it
\* down so that several pages fit into MaxTotal records.
queryPageSize == 2

\* Largest number of query-response elements in one CDC response whose
\* elements carry totalCount, and in one whose elements carry another
\* pagination key.
MaxElems == 2
MaxElemsOtherKey == 1

\* Largest number of raw rows of a TrialBalance report, and of elements in
\* the ColData array of one row.
MaxRows == 2
MaxColData == 2

\* ---------------------------------------------------------------------------
\* Go slices: nil is not the same as empty
\* ---------------------------------------------------------------------------

NilSlice == [isNil |-> TRUE, elems |-> <<>>]

MakeSlice(s) == [isNil |-> FALSE, elems |-> s]

\* append(dst, src...) on a non-nil destination
AppendSlice(dst, src) == [isNil |-> FALSE, elems |-> dst.elems \o src.elems]

Min(a, b) == IF a <= b THEN a ELSE b

\* ceil(n / p) for n >= 0, p > 0
CeilDiv(n, p) == (n + p - 1) \div p

\* ---------------------------------------------------------------------------
\* The server: an id-ordered list of records, and the responses it can give
\* ---------------------------------------------------------------------------

\* The server's list in ascending-id order; a record is named by its id.
ServerList == [k \in 1..MaxTotal |-> k]

\* Records at positions a..b of the server's list (empty when b < a).
Records(a, b) == SubSeq(ServerList, a, Min(b, MaxTotal))

\* The entity key of QueryResponse in one response: absent, JSON null, or an
\* array of records.
AbsentColl == [key |-> "absent", elems |-> <<>>]
NullColl == [key |-> "null", elems |-> <<>>]
PresentColl(s) == [key |-> "present", elems |-> s]

\* What a server may put under the entity key when asked for the page that
\* starts at position s: nothing, null, or an array of 0..queryPageSize+1
\* records that starts at position s or (ignoring STARTPOSITION) at 1.
PageColls(s) ==
    {AbsentColl, NullColl}
        \cup {PresentColl(Records(a, a + n - 1)) :
                a \in {1, s}, n \in 0..(queryPageSize + 1)}

\* totalCount of a response: the field may be missing.
NoTotal == [present |-> FALSE, value |-> 0]
Total(n) == [present |-> TRUE, value |-> n]
TotalFields == {NoTotal} \cup {Total(n) : n \in 0..MaxTotal}

\* A failed request (network error, non-2xx status, body that does not decode).
ErrResponse == [err |-> TRUE, totalCount |-> NoTotal, coll |-> AbsentColl]
OkResponse(t, c) == [err |-> FALSE, totalCount |-> t, coll |-> c]

\* Responses to the count request: failure, or a body with (or without) totalCount.
CountResponses == {ErrResponse} \cup {OkResponse(t, AbsentColl) : t \in TotalFields}

\* Responses to the page request that starts at position s.
PageResponses(s) ==
    {ErrResponse} \cup {OkResponse(t, c) : t \in TotalFields, c \in PageColls(s)}

\* Responses to the single request of QueryX.
QueryResponses == PageResponses(1)

\* ---------------------------------------------------------------------------
\* Requests and the response variable
\* ---------------------------------------------------------------------------

CountRequest == [path |-> "query", kind |-> "count", startPosition |-> 0,
                 maxResults |-> 0, orderBy |-> ""]

\* "SELECT * FROM X ORDERBY Id STARTPOSITION " + Itoa(i+1) + " MAXRESULTS " + Itoa(queryPageSize)
PageRequest(i) == [path |-> "query", kind |-> "page", startPosition |-> i + 1,
                   maxResults |-> queryPageSize, orderBy |-> "Id"]

\* The caller-supplied query of QueryX, passed through unchanged.
RawRequest == [path |-> "query", kind |-> "raw", startPosition |-> 0,
               maxResults |-> 0, orderBy |-> ""]

\* var resp struct{ QueryResponse struct{ Classes []Class; ...; TotalCount int } }
ZeroResp == [TotalCount |-> 0, Classes |-> NilSlice]

\* c.query(q, &resp): the JSON body is decoded into the struct the caller
\* passes.  encoding/json leaves a field alone when its key is missing, sets a
\* slice to nil on JSON null, and sets it to a non-nil slice holding the
\* array's elements (possibly none) otherwise.
query(r, rsp) ==
    [TotalCount |-> IF r.totalCount.present THEN r.totalCount.value ELSE rsp.TotalCount,
     Classes |-> CASE r.coll.key = "absent" -> rsp.Classes
                   [] r.coll.key = "null" -> NilSlice
                   [] OTHER -> MakeSlice(r.coll.elems)]

\* type Class struct { ...; MetaData *MetaData; ... }: a record holds the
\* address of its MetaData.  Memory is a sequence of MetaData values, an
\* address is an index into it; the MetaData the server sends with record k is
\* written k.
\*
\* Decoding a JSON array into a slice that has elements decodes element j into
\* the slice's existing element j, up to the capacity of its array, without
\* zeroing it: a non-nil MetaData pointer found there is followed and the
\* struct behind it overwritten.  Past the capacity the element is new and its
\* MetaData newly allocated.  `arr' is the MetaData pointers held by the
\* elements of the slice's array, `mem' the memory.
RECURSIVE decodeElems(_, _, _, _)
decodeElems(elems, j, arr, mem) ==
    IF j > Len(elems)
    THEN [backing |-> arr, heap |-> mem]
    ELSE IF j <= Len(arr)
         THEN decodeElems(elems, j + 1, arr, [mem EXCEPT ![arr[j]] = elems[j]])
         ELSE decodeElems(elems, j + 1, Append(arr, Len(mem) + 1), Append(mem, elems[j]))

\* What c.query(q, &resp) does to the array of resp.QueryResponse.Classes: a
\* missing key leaves it alone, JSON null and the empty array drop it (nil,
\* and a new empty slice), any other array is decoded into it.
queryPointers(r, arr, mem) ==
    CASE r.coll.key = "absent" -> [backing |-> arr, heap |-> mem]
      [] r.coll.key = "null" -> [backing |-> <<>>, heap |-> mem]
      [] OTHER -> IF Len(r.coll.elems) = 0
                  THEN [backing |-> <<>>, heap |-> mem]
                  ELSE decodeElems(r.coll.elems, 1, arr, mem)

\* ---------------------------------------------------------------------------
\* Outcome of a call
\* ---------------------------------------------------------------------------

NoResult == [err |-> "pending", records |-> NilSlice]
Failure(e) == [err |-> e, records |-> NilSlice]
Success(s) == [err |-> "none", records |-> s]

\* ---------------------------------------------------------------------------
\* Change data capture: the response and its decoding
\* ---------------------------------------------------------------------------

\* Go pointers
NilPtr == [isNil |-> TRUE]
Ptr(v) == [isNil |-> FALSE, val |-> v]

\* The keys of buildDispatch.
Registry ==
    {"Account", "Attachable", "Bill", "Class", "CompanyInfo", "CreditMemo",
     "Customer", "CustomerType", "Deposit", "Employee", "Estimate", "Invoice",
     "Item", "Payment", "Vendor"}

knownMetaKeysWithoutTotal == {"startPosition", "maxResults"}

knownMetaKeys == {"startPosition", "maxResults", "totalCount"}

\* A raw record of an entity array: its Id and its status field ("" when the
\* record has none).
RawRecord(id, status) == [Id |-> id, status |-> status]

\* MaybeDeleted[T].UnmarshalJSON: peek at status; "deleted" decodes into
\* Deleted, anything else into Entity.
UnmarshalMaybeDeletedBoth(rec) ==
    [Deleted |-> IF rec.status = "deleted"
                 THEN Ptr([ID |-> rec.Id, Status |-> rec.status])
                 ELSE NilPtr,
     Entity |-> Ptr([ID |-> rec.Id])]

UnmarshalMaybeDeletedAnyStatus(rec) ==
    IF rec.status # ""
    THEN [Deleted |-> Ptr([ID |-> rec.Id, Status |-> rec.status]), Entity |-> NilPtr]
    ELSE [Deleted |-> NilPtr, Entity |-> Ptr([ID |-> rec.Id])]

UnmarshalMaybeDeleted(rec) ==
    IF rec.status = "deleted"
    THEN [Deleted |-> Ptr([ID |-> rec.Id, Status |-> rec.status]), Entity |-> NilPtr]
    ELSE [Deleted |-> NilPtr, Entity |-> Ptr([ID |-> rec.Id])]

\* The value under a key of an element: an array of raw records that decodes
\* (ok) or JSON that json.Unmarshal rejects for []MaybeDeleted[T].
OkData(recs) == [ok |-> TRUE, recs |-> recs]
BadData == [ok |-> FALSE, recs |-> <<>>]

\* The arrays a server sends under a registry key: the two buckets of the
\* repository's test fixture, shortened.
ArrayOf(key) ==
    IF key = "Estimate"
    THEN <<RawRecord("48", ""), RawRecord("99", "deleted")>>
    ELSE <<RawRecord("13", "")>>

\* What an element may hold under a key.
DataOf(key) ==
    CASE key = "Estimate" -> {OkData(ArrayOf(key)), BadData}
      [] key \in Registry -> {OkData(ArrayOf(key))}
      [] OTHER -> {OkData(<<>>)}

\* The pagination key a server writes into the elements of one response:
\* one of the three keys of knownMetaKeys, or maxResult, the spelling of
\* ChangedEntityBase.
MetaKeysSent == {"startPosition", "maxResults", "totalCount", "maxResult"}

\* The keys a server puts into an element: two registry names, a name that
\* is not in the registry, and the pagination key of the response.
ResponseKeys(meta) == {"Estimate", "Customer", "Foo", meta}

\* The number of elements of a response by its pagination key.
MaxElemsWith(meta) == IF meta = "totalCount" THEN MaxElems ELSE MaxElemsOtherKey

\* One element of QueryResponse: a JSON object (its keys and their values) or
\* JSON of another kind, which does not decode into a map.
NotAnObject == [isObject |-> FALSE, keys |-> {}, data |-> <<>>]

Elements(meta) ==
    {NotAnObject} \cup
    UNION {{[isObject |-> TRUE, keys |-> K, data |-> d] :
                d \in {f \in [K -> UNION {DataOf(k) : k \in K}] :
                          \A k \in K : f[k] \in DataOf(k)}} :
           K \in SUBSET ResponseKeys(meta)}

\* raw.CDCResponse for a list of elements: the list of wrappers, each the
\* list of its QueryResponse elements.  Every split of the elements into
\* non-empty wrappers, and for no elements also a single empty wrapper.
RECURSIVE WrappersOver(_)
WrappersOver(elems) ==
    IF elems = <<>>
    THEN {<<>>}
    ELSE UNION {{<<SubSeq(elems, 1, n)>> \o rest :
                    rest \in WrappersOver(SubSeq(elems, n + 1, Len(elems)))} :
                n \in 1..Len(elems)}

CDCBodies(elems) ==
    WrappersOver(elems) \cup (IF elems = <<>> THEN {<< <<>> >>} ELSE {})

\* The entity lists a caller passes.
EntityLists == {<<"Estimate">>, <<"Customer", "Estimate">>}

\* strings.Join(elems, sep), a string being the sequence of its pieces.
RECURSIVE Join(_, _)
Join(elems, sep) ==
    IF Len(elems) = 0 THEN <<>>
    ELSE IF Len(elems) = 1 THEN <<elems[1]>>
    ELSE <<elems[1], sep>> \o Join(Tail(elems), sep)

\* c.get("cdc", &raw, map[string]string{"entities": ..., "changedSince": ...})
CDCRequestReversed(entities) ==
    [path |-> "cdc",
     entities |-> Join([k \in 1..Len(entities) |-> entities[Len(entities) + 1 - k]], ","),
     changedSince |-> "2026-01-01T00:00:00+00:00"]

CDCRequest(entities) ==
    [path |-> "cdc",
     entities |-> Join(entities, ","),
     changedSince |-> "2026-01-01T00:00:00+00:00"]

\* result := &CDCResponse{}: every sequence nil.
StaleAggregate ==
    [t \in Registry |-> IF t = "Invoice" THEN <<[Deleted |-> NilPtr, Entity |-> Ptr([ID |-> "1"])]>>
                        ELSE <<>>]

EmptyAggregate == [t \in Registry |-> <<>>]

\* Outcomes of GetChangedEntities
CDCFailure(kind, key) == [err |-> kind, key |-> key, changed |-> NilPtr]
CDCSuccess(agg) == [err |-> "none", key |-> "", changed |-> Ptr(agg)]

\* State of the loop over the keys of one element.
Visiting(agg, matched) == [err |-> "none", key |-> "", agg |-> agg, matched |-> matched]
Stopped(kind, key) == [err |-> kind, key |-> key, agg |-> EmptyAggregate, matched |-> 0]

\* unmarshalEntities: decode the array, append it to the type's sequence.
unmarshalEntitiesOverwrite(dest, data) ==
    [k \in 1..Len(data.recs) |-> UnmarshalMaybeDeleted(data.recs[k])]

unmarshalEntities(dest, data) ==
    dest \o [k \in 1..Len(data.recs) |-> UnmarshalMaybeDeleted(data.recs[k])]

\* if knownMetaKeys[key] { continue }
SkippedOrUnknown(key) == key \notin Registry

Skipped(key) == key \in knownMetaKeys

\* One iteration of "for key, data := range qr".
VisitKey(st, key, data) ==
    IF Skipped(key)
    THEN st
    ELSE IF key \notin Registry
    THEN Stopped("unexpected entity type in CDC response", key)
    ELSE IF ~data.ok
    THEN Stopped("failed to unmarshal", key)
    ELSE Visiting([st.agg EXCEPT ![key] = unmarshalEntities(st.agg[key], data)],
                  st.matched + 1)

\* The loop over the keys of an element in the order `order`; the first
\* failure returns.
RECURSIVE VisitKeysUntilMatched(_, _, _)
VisitKeysUntilMatched(st, elem, order) ==
    IF order = <<>> \/ st.err # "none" \/ st.matched > 0
    THEN st
    ELSE VisitKeysUntilMatched(VisitKey(st, Head(order), elem.data[Head(order)]),
                               elem, Tail(order))

RECURSIVE VisitKeys(_, _, _)
VisitKeys(st, elem, order) ==
    IF order = <<>> \/ st.err # "none"
    THEN st
    ELSE VisitKeys(VisitKey(st, Head(order), elem.data[Head(order)]), elem, Tail(order))

\* The orders in which range may visit the keys of a map: all of them.
Orders(K) ==
    {o \in [1..Cardinality(K) -> K] : \A a, b \in 1..Cardinality(K) : o[a] = o[b] => a = b}

\* if matched > 1 { return nil, fmt.Errorf(...) }
MoreThanTwo(matched) == matched > 2

MoreThanOne(matched) == matched > 1

\* The body of the inner loop for one element: decode it into a map, visit
\* its keys, check matched.
DecodeElement(agg, elem, order) ==
    IF ~elem.isObject
    THEN Stopped("json", "")
    ELSE LET st == VisitKeys(Visiting(agg, 0), elem, order) IN
         IF st.err # "none" THEN st
         ELSE IF MoreThanOne(st.matched)
         THEN Stopped("CDC QueryResponse element contained more than one entity type", "")
         ELSE st

\* The outcomes of one element over every visiting order.
ElementOutcomes(agg, elem) ==
    {DecodeElement(agg, elem, o) : o \in Orders(elem.keys)}

\* for _, qrRaw := range cdcResp.QueryResponse
RECURSIVE DecodeWrapperSkipping(_, _)
DecodeWrapperSkipping(agg, elems) ==
    IF elems = <<>>
    THEN {Visiting(agg, 0)}
    ELSE UNION {DecodeWrapperSkipping(IF st.err = "none" THEN st.agg ELSE agg, Tail(elems)) :
                st \in ElementOutcomes(agg, Head(elems))}

RECURSIVE DecodeWrapper(_, _)
DecodeWrapper(agg, elems) ==
    IF elems = <<>>
    THEN {Visiting(agg, 0)}
    ELSE UNION {IF st.err = "none" THEN DecodeWrapper(st.agg, Tail(elems)) ELSE {st} :
                st \in ElementOutcomes(agg, Head(elems))}

\* for _, cdcResp := range raw.CDCResponse
RECURSIVE DecodeWrappers(_, _)
DecodeWrappers(agg, wrappers) ==
    IF wrappers = <<>>
    THEN {Visiting(agg, 0)}
    ELSE UNION {IF st.err = "none" THEN DecodeWrappers(st.agg, Tail(wrappers)) ELSE {st} :
                st \in DecodeWrapper(agg, Head(wrappers))}

\* What GetChangedEntities may return for a response body.
CDCOutcomes(body) ==
    {IF st.err = "none" THEN CDCSuccess(st.agg) ELSE CDCFailure(st.err, st.key) :
        st \in DecodeWrappers(EmptyAggregate, body)}

\* The responses to the cdc request: a failure, or a body.
CDCErrResponse == [err |-> TRUE, body |-> <<>>]
CDCOkResponse(b) == [err |-> FALSE, body |-> b]

\* The raw records handed to MaybeDeleted.UnmarshalJSON on its own: no
\* status, status "deleted", and statuses of other values.
RawRecords ==
    {RawRecord(id, st) : id \in {"48", "99"}, st \in {"", "deleted", "Deleted", "active"}}

\* ---------------------------------------------------------------------------
\* Date: decoding and rendering
\* ---------------------------------------------------------------------------

\* A text is the sequence of its fields.  The layouts of time.Parse and
\* time.Format:
format == <<"2006-01-02", "T", "15:04:05", "-07:00">>
secondFormat == <<"2006-01-02">>

\* time.Time: calendar day, second of the day, zone offset in minutes.
Time(ymd, sec, off) == [ymd |-> ymd, sec |-> sec, off |-> off]
ZeroTime == Time(<<1, 1, 1>>, 0, 0)

Parsed(v) == [ok |-> TRUE, v |-> v]
Unparsed == [ok |-> FALSE, v |-> 0]

\* time.Parse on one field of a text against one field of a layout.  A day
\* that the month does not have is out of range; an offset of -00:00 is the
\* offset zero; "Z" is no "-07:00" offset.
ParseField(layoutField, field) ==
    CASE layoutField = "2006-01-02" ->
            (CASE field = "2014-11-06" -> Parsed(<<2014, 11, 6>>)
               [] field = "2014-12-06" -> Parsed(<<2014, 12, 6>>)
               [] OTHER -> Unparsed)
      [] layoutField = "T" -> IF field = "T" THEN Parsed(0) ELSE Unparsed
      [] layoutField = "15:04:05" ->
            (CASE field = "15:37:25" -> Parsed(15 * 3600 + 37 * 60 + 25)
               [] field = "00:00:00" -> Parsed(0)
               [] OTHER -> Unparsed)
      [] layoutField = "-07:00" ->
            (CASE field = "-08:00" -> Parsed(0 - 480)
               [] field = "+00:00" -> Parsed(0)
               [] field = "-00:00" -> Parsed(0)
               [] OTHER -> Unparsed)
      [] OTHER -> Unparsed

\* The value of the field of a text laid out as layoutField; the zero value
\* of the field when the layout has no such field.
FieldOf(layout, text, layoutField, zero) ==
    IF \E k \in 1..Len(layout) : layout[k] = layoutField
    THEN ParseField(layoutField, text[CHOOSE k \in 1..Len(layout) : layout[k] = layoutField]).v
    ELSE zero

\* time.Parse(layout, text): every field of the layout must parse and no
\* text may be left over; fields the layout lacks are zero (midnight, UTC).
\* On failure the time is the zero time.
TimeParse(layout, text) ==
    IF /\ Len(text) = Len(layout)
       /\ \A k \in 1..Len(layout) : ParseField(layout[k], text[k]).ok
    THEN [ok |-> TRUE,
          t |-> Time(FieldOf(layout, text, "2006-01-02", <<1, 1, 1>>),
                     FieldOf(layout, text, "15:04:05", 0),
                     FieldOf(layout, text, "-07:00", 0))]
    ELSE [ok |-> FALSE, t |-> ZeroTime]

\* time.Format on one field of a layout.
FormatField(layoutField, t) ==
    CASE layoutField = "2006-01-02" ->
            (CASE t.ymd = <<2014, 11, 6>> -> "2014-11-06"
               [] t.ymd = <<2014, 12, 6>> -> "2014-12-06"
               [] OTHER -> "0001-01-01")
      [] layoutField = "15:04:05" ->
            (IF t.sec = 15 * 3600 + 37 * 60 + 25 THEN "15:37:25" ELSE "00:00:00")
      [] layoutField = "-07:00" ->
            (IF t.off = 0 - 480 THEN "-08:00" ELSE "+00:00")
      [] OTHER -> layoutField

\* t.Format(layout)
TimeFormat(layout, t) == [k \in 1..Len(layout) |-> FormatField(layout[k], t)]

\* The bytes of a JSON string with text s; the JSON literal null.
Quoted(s) == <<"\"">> \o s \o <<"\"">>
JSONNull == <<"null">>

\* if b[0] == '"' && b[len(b)-1] == '"' { b = b[1 : len(b)-1] }
StripQuotes(b) ==
    IF b[1] = "\"" /\ b[Len(b)] = "\""
    THEN SubSeq(b, 2, Len(b) - 1)
    ELSE b

\* Date.UnmarshalJSON: parse with format, on failure with secondFormat.
DateUnmarshalJSONNoFallback(b) ==
    LET first == TimeParse(format, StripQuotes(b)) IN
    [err |-> ~first.ok, Time |-> first.t]

DateUnmarshalJSON(b) ==
    LET first == TimeParse(format, StripQuotes(b)) IN
    IF first.ok
    THEN [err |-> FALSE, Time |-> first.t]
    ELSE LET second == TimeParse(secondFormat, StripQuotes(b)) IN
         [err |-> ~second.ok, Time |-> second.t]

\* Date.String: d.Format(format)
DateString(d) == TimeFormat(format, d.Time)

\* The texts of the long form and of the bare date, over the days, times and
\* offsets below; "2014-02-30" is a day February does not have.
Days == {"2014-11-06", "2014-12-06", "2014-02-30"}
Clocks == {"15:37:25", "00:00:00"}
Offsets == {"-08:00", "+00:00", "-00:00"}
LongTexts == {<<d, "T", c, o>> : d \in Days, c \in Clocks, o \in Offsets}
BareTexts == {<<d>> : d \in Days}

\* The JSON values handed to Date.UnmarshalJSON: strings of both forms, a
\* string with the offset written Z, and null.
DateInputs ==
    {Quoted(s) : s \in LongTexts \cup BareTexts \cup {<<"2014-11-06", "T", "15:37:25", "Z">>}}
        \cup {JSONNull}

\* ---------------------------------------------------------------------------
\* TrialBalance: decoding of the report rows
\* ---------------------------------------------------------------------------

\* An element of a ColData array: with an id (the account) or without.
HeaderElem == [hasId |-> TRUE, id |-> "35", value |-> "Checking"]
ValueElem(v) == [hasId |-> FALSE, id |-> "", value |-> v]
ColDataElems == {HeaderElem, ValueElem("1201.00"), ValueElem("3000.00")}

\* The sequences over S of length at most n.
SeqsUpTo(S, n) == UNION {[1..k -> S] : k \in 0..n}

\* A raw row: an object with a ColData key, an object without one (group,
\* type, Summary.ColData), or JSON that is no object.
DataRow(colData) ==
    [isObject |-> TRUE, hasColData |-> TRUE, ColData |-> colData,
     group |-> "", type |-> "", Summary |-> <<>>]
SummaryRow(group, summary) ==
    [isObject |-> TRUE, hasColData |-> FALSE, ColData |-> <<>>,
     group |-> group, type |-> "Section", Summary |-> summary]
NotARow ==
    [isObject |-> FALSE, hasColData |-> FALSE, ColData |-> <<>>,
     group |-> "", type |-> "", Summary |-> <<>>]

RawRows ==
    {DataRow(cd) : cd \in SeqsUpTo(ColDataElems, MaxColData)}
        \cup {SummaryRow("GrandTotal", <<ValueElem("1201.00"), ValueElem("3000.00")>>),
              SummaryRow("Total", <<ValueElem("3000.00")>>),
              NotARow}

\* The reports handed to TrialBalance.UnmarshalJSON: their Rows.Row arrays.
Reports == SeqsUpTo(RawRows, MaxRows)

\* var tb TrialBalance / var actualRow TrialBalanceRow
ZeroRowHeader == [ID |-> "", Value |-> ""]
ZeroRow == [RowHeader |-> ZeroRowHeader, Values |-> <<>>]
ZeroSummaryRow == [Group |-> "", Type |-> "", Rows |-> <<>>]
ZeroTrialBalance == [Rows |-> <<>>, Total |-> ZeroSummaryRow]

\* json.Unmarshal(elem, &val) for a TrialBalanceValueRow
UnmarshalValueRow(elem) == [Value |-> elem.value]

\* One iteration of "for _, elem := range colData".
DecodeElemPrepending(row, elem) ==
    IF elem.hasId
    THEN [row EXCEPT !.RowHeader = [ID |-> elem.id, Value |-> elem.value]]
    ELSE [row EXCEPT !.Values = <<UnmarshalValueRow(elem)>> \o @]

DecodeElem(row, elem) ==
    IF elem.hasId
    THEN [row EXCEPT !.RowHeader = [ID |-> elem.id, Value |-> elem.value]]
    ELSE [row EXCEPT !.Values = Append(@, UnmarshalValueRow(elem))]

\* for _, elem := range colData
RECURSIVE DecodeColData(_, _)
DecodeColData(row, colData) ==
    IF colData = <<>>
    THEN row
    ELSE DecodeColData(DecodeElem(row, Head(colData)), Tail(colData))

\* One iteration of "for _, raw := range t.Rows.Row" on a row that is an
\* object: a data row is appended, any other row sets Total.
DecodeRow(tb, raw) ==
    IF raw.hasColData
    THEN [tb EXCEPT !.Rows = Append(@, DecodeColData(ZeroRow, raw.ColData))]
    ELSE [tb EXCEPT !.Total =
             [Group |-> raw.group,
              Type |-> raw.type,
              Rows |-> [k \in 1..Len(raw.Summary) |-> UnmarshalValueRow(raw.Summary[k])]]]

\* for _, raw := range t.Rows.Row; the first row that does not decode
\* returns the error and leaves tb as it is by then.
RECURSIVE DecodeRows(_, _)
DecodeRows(tb, rows) ==
    IF rows = <<>>
    THEN [err |-> FALSE, tb |-> tb]
    ELSE IF ~Head(rows).isObject
    THEN [err |-> TRUE, tb |-> tb]
    ELSE DecodeRows(DecodeRow(tb, Head(rows)), Tail(rows))

\* TrialBalance.UnmarshalJSON into tb.  Header and Columns are copied from
\* the report as they are and play no part in the rows.
TrialBalanceUnmarshalJSON(tb, rows) == DecodeRows(tb, rows)

\* ---------------------------------------------------------------------------
\* Entities: UpdateX, DeleteX, VoidX
\* ---------------------------------------------------------------------------

\* An entity object: its id, its SyncToken and a field the caller edits.
Entity(id, token, name) == [ID |-> id, SyncToken |-> token, Name |-> name]

\* The objects a caller passes: with and without ID, with and without
\* SyncToken.
CallerEntities == {Entity(id, token, "edited") : id \in {"", "7"}, token \in {"", "1"}}

\* What a read decodes into resp.Class: the stored entity with its current
\* SyncToken, or the zero entity when the body has no entity.
StoredEntities == {Entity("7", "2", "stored"), Entity("7", "3", "stored"), Entity("", "", "")}

\* c.realm
realm == "test-realm"

\* c.get(path + id, &resp, nil)
GetRequest(path, id) ==
    [method |-> "GET", path |-> path, id |-> id,
     payload |-> Entity("", "", ""), sparse |-> FALSE, operation |-> ""]

\* c.post(path, payload, &data, params)
PostRequest(path, payload, sparse, operation) ==
    [method |-> "POST", path |-> path, id |-> "",
     payload |-> payload, sparse |-> sparse, operation |-> operation]

\* The answers to a read and to a POST: a failure, or a decoded entity.
EntityErrResponse == [err |-> TRUE, entity |-> Entity("", "", "")]
EntityOkResponse(e) == [err |-> FALSE, entity |-> e]
EntityResponses == {EntityErrResponse} \cup {EntityOkResponse(e) : e \in StoredEntities}

\* What UpdateX / DeleteX / VoidX return.
NoEntity == Entity("", "", "")
EntityPending == [err |-> "pending", entity |-> NilPtr]
EntityFailure(e) == [err |-> e, entity |-> NilPtr]
EntitySuccess(e) == [err |-> "none", entity |-> Ptr(e)]
Done == [err |-> "none", entity |-> NilPtr]

\* if class.ID == "" { return nil, errors.New("missing class id") }
MissingIDNever(e) == FALSE

MissingID(e) == e.ID = ""

\* if class.ID == "" || class.SyncToken == "" { return errors.New(...) }
MissingIDOnly(e) == e.ID = ""

MissingIDOrSyncToken(e) == e.ID = "" \/ e.SyncToken = ""

\* class.SyncToken = existingClass.SyncToken
KeepSyncToken(e, existing) == e

CopyExisting(e, existing) == existing

SetSyncToken(e, existing) == [e EXCEPT !.SyncToken = existing.SyncToken]

\* companyInfo.ID = existingCompanyInfo.ID
\* companyInfo.SyncToken = existingCompanyInfo.SyncToken
SetIDAndSyncToken(e, existing) ==
    [e EXCEPT !.ID = existing.ID, !.SyncToken = existing.SyncToken]

\* c.post("class", payload, &classData, nil) with payload {*Class, Sparse: true}:
\* the payload is the caller's object as it is when the request is sent.
UpdatePostFull(path, e) == PostRequest(path, e, FALSE, "")

UpdatePost(path, e) == PostRequest(path, e, TRUE, "")

\* c.post("class", class, nil, map[string]string{"operation": "delete"})
DeletePost(path, e) == PostRequest(path, e, FALSE, "delete")

\* c.post("salesreceipt", salesReceipt, nil, map[string]string{"operation": "void"})
VoidPostAsDelete(path, e) == PostRequest(path, e, FALSE, "delete")

VoidPost(path, e) == PostRequest(path, e, FALSE, "void")

\* The variables of the decoders when another operation runs.
NoInput == [kind |-> "none"]
NoOutput == [kind |-> "none"]

VARIABLES
    op,         \* the operation this call runs: "Find", "Query", "CDC", or
                \* a decoder: "Record", "Date", "TrialBalance"
    pc,         \* position in the call: "count", "page", "query", "cdc",
                \* "decode", "done"
    resp,       \* the response variable of FindX, reused for every request
    i,          \* loop variable of the page loop (offset)
    classes,    \* accumulator of FindX
    result,     \* what the call returned
    requests,   \* the requests issued so far, in order
    responses,  \* the responses received so far, in order
    entities,   \* the entity list passed to GetChangedEntities
    input,      \* the JSON handed to a decoder; the object handed to
                \* UpdateX / DeleteX / VoidX as it was at the call
    output,     \* what the decoder made of it
    entity,     \* the caller's object handed to UpdateX / DeleteX / VoidX
    backing,    \* FindX: the MetaData pointers in the array of resp's slice
    heap,       \* FindX: the MetaData structs allocated so far
    metas       \* FindX: the MetaData pointers of the records in classes

vars ==
    <<op, pc, resp, i, classes, result, requests, responses, entities, input, output, entity,
      backing, heap, metas>>

Decoders == {"Record", "Date", "TrialBalance"}

\* The operations on one entity object.
ReadThenWrite == {"UpdateClass", "UpdateCompanyInfo", "VoidSalesReceipt"}
EntityOps == ReadThenWrite \cup {"DeleteClass"}

Init ==
    /\ op \in {"Find", "Query", "CDC"} \cup Decoders \cup EntityOps
    /\ pc = CASE op = "Find" -> "count" [] op = "Query" -> "query" [] op = "CDC" -> "cdc"
              [] op \in ReadThenWrite -> "read" [] op = "DeleteClass" -> "delete"
              [] OTHER -> "decode"
    /\ input \in CASE op = "Record" -> RawRecords
                   [] op = "Date" -> DateInputs
                   [] op = "TrialBalance" -> Reports
                   [] op \in EntityOps -> CallerEntities
                   [] OTHER -> {NoInput}
    /\ output = NoOutput
    /\ entity = IF op \in EntityOps THEN input ELSE NoEntity
    /\ entities \in IF op = "CDC" THEN EntityLists ELSE {<<>>}
    /\ resp = ZeroResp
    /\ i = 0
    /\ classes = NilSlice
    /\ result = IF op \in EntityOps THEN EntityPending ELSE NoResult
    /\ requests = <<>>
    /\ responses = <<>>
    /\ backing = <<>>
    /\ heap = <<>>
    /\ metas = <<>>

\* ---------------------------------------------------------------------------
\* FindX
\* ---------------------------------------------------------------------------

\* if resp.QueryResponse.TotalCount == 0 { return nil, errors.New(...) }
ZeroTotalNoCheck(rsp) == FALSE

ZeroTotal(rsp) == rsp.TotalCount = 0

\* The loop condition, read from the response variable on every evaluation:
\* for i := 0; i < resp.QueryResponse.TotalCount; i += queryPageSize
LoopCondInclusive(ii, rsp) == ii <= rsp.TotalCount

LoopCond(ii, rsp) == ii < rsp.TotalCount

\* i += queryPageSize
NextOffsetByOne(ii) == ii + 1

NextOffset(ii) == ii + queryPageSize

\* if resp.QueryResponse.Classes == nil { return nil, errors.New(...) }
NoClasses(rsp) == rsp.Classes.isNil

\* if err := c.query(...); err != nil { return nil, err }
QueryErrorKeepsRecords(acc) == [err |-> "transport", records |-> acc]

QueryError(acc) == Failure("transport")

\* The count request, the zero check, make() and the first evaluation of the
\* loop condition.
FindCountStep(r) ==
    LET rsp == query(r, resp) IN
    /\ requests' = Append(requests, CountRequest)
    /\ responses' = Append(responses, r)
    /\ i' = 0
    /\ IF r.err
       THEN /\ result' = QueryError(NilSlice)
            /\ pc' = "done"
            /\ UNCHANGED <<resp, classes>>
       ELSE /\ resp' = rsp
            /\ IF ZeroTotal(rsp)
               THEN /\ result' = Failure("no classes could be found")
                    /\ pc' = "done"
                    /\ UNCHANGED classes
               ELSE /\ classes' = MakeSlice(<<>>)
                    /\ IF LoopCond(0, rsp)
                       THEN /\ pc' = "page"
                            /\ result' = NoResult
                       ELSE /\ pc' = "done"
                            /\ result' = Success(MakeSlice(<<>>))

FindCount ==
    /\ op = "Find"
    /\ pc = "count"
    /\ \E r \in CountResponses : FindCountStep(r)
    /\ UNCHANGED <<op, entities, input, output, entity, backing, heap, metas>>

\* One iteration of the page loop, from the request to the next evaluation of
\* the loop condition.
FindPageStep(r) ==
    LET rsp == query(r, resp)
        ptr == queryPointers(r, backing, heap)
        acc == AppendSlice(classes, rsp.Classes)
    IN
    /\ requests' = Append(requests, PageRequest(i))
    /\ responses' = Append(responses, r)
    /\ IF r.err
       THEN /\ result' = QueryError(classes)
            /\ pc' = "done"
            /\ UNCHANGED <<resp, classes, i, backing, heap, metas>>
       ELSE /\ resp' = rsp
            /\ backing' = ptr.backing
            /\ heap' = ptr.heap
            /\ IF NoClasses(rsp)
               THEN /\ result' = Failure("no classes could be found")
                    /\ pc' = "done"
                    /\ UNCHANGED <<classes, i, metas>>
               ELSE /\ classes' = acc
                    /\ metas' = metas \o SubSeq(ptr.backing, 1, Len(rsp.Classes.elems))
                    /\ i' = NextOffset(i)
                    /\ IF LoopCond(NextOffset(i), rsp)
                       THEN /\ pc' = "page"
                            /\ result' = NoResult
                       ELSE /\ pc' = "done"
                            /\ result' = Success(acc)

FindPage ==
    /\ op = "Find"
    /\ pc = "page"
    /\ \E r \in PageResponses(PageRequest(i).startPosition) : FindPageStep(r)
    /\ UNCHANGED <<op, entities, input, output, entity>>

\* ---------------------------------------------------------------------------
\* QueryX
\* ---------------------------------------------------------------------------

\* class.go:107-125: one request into a fresh response variable, nil check.
QueryStep(r) ==
    LET rsp == query(r, ZeroResp) IN
    /\ requests' = Append(requests, RawRequest)
    /\ responses' = Append(responses, r)
    /\ pc' = "done"
    /\ IF r.err
       THEN /\ result' = QueryError(NilSlice)
            /\ UNCHANGED resp
       ELSE /\ resp' = rsp
            /\ result' = IF NoClasses(rsp)
                         THEN Failure("could not find any classes")
                         ELSE Success(rsp.Classes)

QueryClasses ==
    /\ op = "Query"
    /\ pc = "query"
    /\ \E r \in QueryResponses : QueryStep(r)
    /\ UNCHANGED <<op, i, classes, entities, input, output, entity, backing, heap, metas>>

\* ---------------------------------------------------------------------------
\* GetChangedEntities
\* ---------------------------------------------------------------------------

\* One request to cdc, then the decoding of its response.
GetChangedEntities ==
    /\ op = "CDC"
    /\ pc = "cdc"
    /\ requests' = Append(requests, CDCRequest(entities))
    /\ \/ /\ responses' = Append(responses, CDCErrResponse)
          /\ result' = CDCFailure("transport", "")
       \/ \E meta \in MetaKeysSent :
             \E n \in 0..MaxElemsWith(meta) : \E elems \in [1..n -> Elements(meta)] :
                \E b \in CDCBodies(elems) :
                   /\ responses' = Append(responses, CDCOkResponse(b))
                   /\ result' \in CDCOutcomes(b)
    /\ pc' = "done"
    /\ UNCHANGED <<op, resp, i, classes, entities, input, output, entity, backing, heap, metas>>

\* ---------------------------------------------------------------------------
\* The decoders
\* ---------------------------------------------------------------------------

\* json.Unmarshal of one raw record into a zero MaybeDeleted.
DecodeRecord ==
    /\ op = "Record"
    /\ pc = "decode"
    /\ output' = UnmarshalMaybeDeleted(input)
    /\ pc' = "done"
    /\ UNCHANGED <<op, resp, i, classes, result, requests, responses, entities, input, entity, backing, heap, metas>>

\* json.Unmarshal of one JSON value into a zero Date, then String().
DecodeDate ==
    /\ op = "Date"
    /\ pc = "decode"
    /\ output' = LET d == DateUnmarshalJSON(input) IN
                 [err |-> d.err, Time |-> d.Time, String |-> DateString(d)]
    /\ pc' = "done"
    /\ UNCHANGED <<op, resp, i, classes, result, requests, responses, entities, input, entity, backing, heap, metas>>

\* GetTrialBalance: var tb TrialBalance, then json.Unmarshal into it.
DecodeTrialBalance ==
    /\ op = "TrialBalance"
    /\ pc = "decode"
    /\ output' = TrialBalanceUnmarshalJSON(ZeroTrialBalance, input)
    /\ pc' = "done"
    /\ UNCHANGED <<op, resp, i, classes, result, requests, responses, entities, input, entity, backing, heap, metas>>

\* ---------------------------------------------------------------------------
\* UpdateX, DeleteX, VoidX
\* ---------------------------------------------------------------------------

\* The variables no entity operation touches.
EntityFrame == <<op, resp, i, classes, entities, input, output, backing, heap, metas>>

\* UpdateClass up to the return of FindClassByID: the ID check, the read,
\* the assignment of the SyncToken read.
UpdateClassRead ==
    /\ op = "UpdateClass"
    /\ pc = "read"
    /\ IF MissingID(entity)
       THEN /\ result' = EntityFailure("missing class id")
            /\ pc' = "done"
            /\ UNCHANGED <<requests, responses, entity, backing, heap, metas>>
       ELSE /\ requests' = Append(requests, GetRequest("class/", entity.ID))
            /\ \E r \in EntityResponses :
                  /\ responses' = Append(responses, r)
                  /\ IF r.err
                     THEN /\ result' = EntityFailure("transport")
                          /\ pc' = "done"
                          /\ UNCHANGED entity
                     ELSE /\ entity' = SetSyncToken(entity, r.entity)
                          /\ pc' = "post"
                          /\ UNCHANGED result
    /\ UNCHANGED EntityFrame

\* UpdateClass from the POST to the return.
UpdateClassPost ==
    /\ op = "UpdateClass"
    /\ pc = "post"
    /\ requests' = Append(requests, UpdatePost("class", entity))
    /\ \E r \in EntityResponses :
          /\ responses' = Append(responses, r)
          /\ result' = IF r.err THEN EntityFailure("transport") ELSE EntitySuccess(r.entity)
    /\ pc' = "done"
    /\ UNCHANGED entity
    /\ UNCHANGED EntityFrame

\* UpdateCompanyInfo up to the return of FindCompanyInfo: no ID check, the
\* read by realm, the assignment of the ID and the SyncToken read.
UpdateCompanyInfoRead ==
    /\ op = "UpdateCompanyInfo"
    /\ pc = "read"
    /\ requests' = Append(requests, GetRequest("companyinfo/", realm))
    /\ \E r \in EntityResponses :
          /\ responses' = Append(responses, r)
          /\ IF r.err
             THEN /\ result' = EntityFailure("transport")
                  /\ pc' = "done"
                  /\ UNCHANGED entity
             ELSE /\ entity' = SetIDAndSyncToken(entity, r.entity)
                  /\ pc' = "post"
                  /\ UNCHANGED result
    /\ UNCHANGED EntityFrame

\* UpdateCompanyInfo from the POST to the return.
UpdateCompanyInfoPost ==
    /\ op = "UpdateCompanyInfo"
    /\ pc = "post"
    /\ requests' = Append(requests, UpdatePost("companyInfo", entity))
    /\ \E r \in EntityResponses :
          /\ responses' = Append(responses, r)
          /\ result' = IF r.err THEN EntityFailure("transport") ELSE EntitySuccess(r.entity)
    /\ pc' = "done"
    /\ UNCHANGED entity
    /\ UNCHANGED EntityFrame

\* DeleteClass: the check of ID and SyncToken, then the POST.
DeleteClass ==
    /\ op = "DeleteClass"
    /\ pc = "delete"
    /\ IF MissingIDOrSyncToken(entity)
       THEN /\ result' = EntityFailure("missing id/sync token")
            /\ UNCHANGED <<requests, responses>>
       ELSE /\ requests' = Append(requests, DeletePost("class", entity))
            /\ \E r \in {EntityErrResponse, EntityOkResponse(NoEntity)} :
                  /\ responses' = Append(responses, r)
                  /\ result' = IF r.err THEN EntityFailure("transport") ELSE Done
    /\ pc' = "done"
    /\ UNCHANGED entity
    /\ UNCHANGED EntityFrame

\* VoidSalesReceipt up to the return of FindSalesReceiptByID.
VoidSalesReceiptRead ==
    /\ op = "VoidSalesReceipt"
    /\ pc = "read"
    /\ IF MissingID(entity)
       THEN /\ result' = EntityFailure("missing sales receipt id")
            /\ pc' = "done"
            /\ UNCHANGED <<requests, responses, entity, backing, heap, metas>>
       ELSE /\ requests' = Append(requests, GetRequest("salesreceipt/", entity.ID))
            /\ \E r \in EntityResponses :
                  /\ responses' = Append(responses, r)
                  /\ IF r.err
                     THEN /\ result' = EntityFailure("transport")
                          /\ pc' = "done"
                          /\ UNCHANGED entity
                     ELSE /\ entity' = SetSyncToken(entity, r.entity)
                          /\ pc' = "post"
                          /\ UNCHANGED result
    /\ UNCHANGED EntityFrame

\* VoidSalesReceipt from the POST to the return.
VoidSalesReceiptPost ==
    /\ op = "VoidSalesReceipt"
    /\ pc = "post"
    /\ requests' = Append(requests, VoidPost("salesreceipt", entity))
    /\ \E r \in {EntityErrResponse, EntityOkResponse(NoEntity)} :
          /\ responses' = Append(responses, r)
          /\ result' = IF r.err THEN EntityFailure("transport") ELSE Done
    /\ pc' = "done"
    /\ UNCHANGED entity
    /\ UNCHANGED EntityFrame

Next ==
    \/ FindCount
    \/ FindPage
    \/ QueryClasses
    \/ GetChangedEntities
    \/ DecodeRecord
    \/ DecodeDate
    \/ DecodeTrialBalance
    \/ UpdateClassRead
    \/ UpdateClassPost
    \/ UpdateCompanyInfoRead
    \/ UpdateCompanyInfoPost
    \/ DeleteClass
    \/ VoidSalesReceiptRead
    \/ VoidSalesReceiptPost

Spec == Init /\ [][Next]_vars

\* ===========================================================================
\* Properties
\* ===========================================================================

FindDone == op = "Find" /\ pc = "done"

Failed == result.err \notin {"none", "pending"} /\ result.records.isNil

\* The count request was answered (no transport failure).
CountAnswered == op = "Find" /\ Len(responses) >= 1 /\ ~responses[1].err

\* The total reported by the count request (0 when the field is missing).
CountTotal == IF responses[1].totalCount.present THEN responses[1].totalCount.value ELSE 0

\* The indices of the page requests issued so far.
PageIndices == 2..Len(responses)

\* The k-th request was answered with exactly the records at positions
\* s..min(s+P-1, N) of the server's list (and nothing else: the page body
\* has the entity array only, as in the wire format).
Faithful(k) ==
    LET s == requests[k].startPosition
        p == requests[k].maxResults
    IN responses[k] = OkResponse(NoTotal, PresentColl(Records(s, Min(s + p - 1, CountTotal))))

\* C1: when the count request reports N > 0 and every page request is
\* answered with exactly its records of the server's id-ordered list, FindX
\* issues exactly 1 + ceil(N/P) requests and returns exactly the N records in
\* server order, each once.
C1_Complete ==
    (FindDone /\ CountAnswered /\ CountTotal > 0 /\ \A k \in PageIndices : Faithful(k))
        => /\ Len(requests) = 1 + CeilDiv(CountTotal, queryPageSize)
           /\ result = Success(MakeSlice(Records(1, CountTotal)))

\* A call over three or more faithful pages has returned.
C1_Witness ==
    /\ FindDone /\ CountAnswered /\ CountTotal = MaxTotal
    /\ \A k \in PageIndices : Faithful(k)
    /\ Len(requests) >= 3
    /\ result.err = "none"

\* C2: when the count request reports total = 0, FindX fails with an error
\* and the count request is the only request of the call.
C2_ZeroTotalFails ==
    (CountAnswered /\ CountTotal = 0)
        => /\ pc = "done"
           /\ Failed
           /\ requests = <<CountRequest>>

\* The count request was answered with totalCount 0.
C2_Witness ==
    /\ CountAnswered /\ responses[1].totalCount = Total(0)
    /\ FindDone /\ Failed

\* C3: the total that bounds the page loop is the value returned by the count
\* request: no page response changes it.
C3_BoundIsCountTotal ==
    CountAnswered => resp.TotalCount = CountTotal

\* Some page response of the call was decoded and had no entity key.
AbsentPage == \E k \in PageIndices : ~responses[k].err /\ responses[k].coll.key = "absent"

\* C4: if any page response carries no entity collection at all, FindX fails
\* and does not go on.
C4_AbsentCollectionFails ==
    (op = "Find" /\ AbsentPage) =>
        /\ pc = "done"
        /\ Failed
        /\ responses[Len(responses)].coll.key = "absent"

\* Some page response of the call was decoded and had an empty entity array.
EmptyPage ==
    \E k \in PageIndices :
        /\ ~responses[k].err
        /\ responses[k].coll = PresentColl(<<>>)

\* C5: if any page response carries an entity collection with zero records,
\* FindX fails.
C5_EmptyCollectionFails ==
    (op = "Find" /\ EmptyPage) => (pc = "done" /\ Failed)

\* C6: whenever FindX returns successfully, the returned sequence is as long
\* as the total reported by the count request.
C6_LengthIsTotal ==
    (FindDone /\ result.err = "none") => Len(result.records.elems) = CountTotal

\* Some request of the call failed.
FailedRequest == \E k \in 1..Len(responses) : responses[k].err

\* C7: if the count request or a page request fails, FindX returns that error
\* with no records, the failed request is the last one of the call, and no
\* request of a call is issued twice.
C7_FirstFailureEndsCall ==
    op = "Find" =>
        /\ FailedRequest =>
              /\ pc = "done"
              /\ result = Failure("transport")
              /\ responses[Len(responses)].err
              /\ \A k \in 1..(Len(responses) - 1) : ~responses[k].err
        /\ pc = "done" => Len(requests) = Len(responses)
        /\ \A j, k \in 1..Len(requests) : requests[j] = requests[k] => j = k

\* A page request failed after records had been accumulated.
C7_Witness ==
    /\ FindDone /\ Len(responses) >= 3 /\ responses[Len(responses)].err
    /\ classes.elems # <<>>
    /\ result = Failure("transport")

\* C8: QueryX fails whenever the decoded collection of its response is empty,
\* whether the entity key is absent or present with zero records.
C8_QueryEmptyFails ==
    (op = "Query" /\ pc = "done" /\ ~responses[1].err /\ responses[1].coll.elems = <<>>)
        => Failed

\* ---------------------------------------------------------------------------

CDCDone == op = "CDC" /\ pc = "done"

\* The cdc request was answered and its body decoded into raw.
CDCAnswered == CDCDone /\ ~responses[1].err

\* The elements of a response body in response order.
RECURSIVE Flat(_)
Flat(body) == IF body = <<>> THEN <<>> ELSE Head(body) \o Flat(Tail(body))

\* The keys of an element that are neither metadata nor registry names.
UnknownKeys(elem) == {k \in elem.keys : k \notin knownMetaKeys /\ k \notin Registry}

\* s is the names joined by commas, in the order of names.
IsJoined(s, names) ==
    /\ Len(s) = IF names = <<>> THEN 0 ELSE 2 * Len(names) - 1
    /\ \A k \in 1..Len(names) : s[2 * k - 1] = names[k]
    /\ \A k \in 1..(Len(names) - 1) : s[2 * k] = ","

\* C9: every GetChangedEntities call issues exactly one request, to path cdc,
\* whose entities parameter is the requested names joined by commas in the
\* caller's order, whatever the response holds.
C9_OneRequest ==
    op = "CDC" =>
        /\ pc # "done" => requests = <<>>
        /\ pc = "done" =>
              /\ Len(requests) = 1
              /\ requests[1].path = "cdc"
              /\ IsJoined(requests[1].entities, entities)

\* A call for two entity types has failed on its response.
C9_Witness ==
    /\ CDCAnswered /\ Len(entities) = 2
    /\ result.err = "failed to unmarshal"
    /\ Len(requests) = 1

\* C10 as stated: whenever some element has a key that is neither metadata
\* nor a registry name, the call fails with the unexpected-entity-type error
\* that names that key.
C10_UnknownKeyNamed ==
    CDCAnswered =>
        \A n \in 1..Len(Flat(responses[1].body)) :
            \A k \in UnknownKeys(Flat(responses[1].body)[n]) :
                result = CDCFailure("unexpected entity type in CDC response", k)

\* An element the decoder accepts: an object with no unknown key, at most one
\* registry key, and arrays that decode.
WellFormed(elem) ==
    /\ elem.isObject
    /\ UnknownKeys(elem) = {}
    /\ Cardinality(elem.keys \cap Registry) <= 1
    /\ \A k \in elem.keys \cap Registry : elem.data[k].ok

\* The element's only defect is the unknown key k.
OnlyDefectIs(elem, k) ==
    /\ elem.isObject
    /\ UnknownKeys(elem) = {k}
    /\ \A r \in elem.keys \cap Registry : elem.data[r].ok

\* C10 as amended: whenever some element has a key that is neither metadata
\* nor a registry name, the call fails and returns no aggregate; the error is
\* the unexpected-entity-type error naming that key when the element is the
\* first of the response that is not well-formed, the key is its only unknown
\* key and its registry keys all decode.
C10_UnknownKeyFails ==
    CDCAnswered =>
        LET flat == Flat(responses[1].body) IN
        \A n \in 1..Len(flat) :
            \A k \in UnknownKeys(flat[n]) :
                /\ result.err # "none"
                /\ result.changed.isNil
                /\ ((\A m \in 1..(n - 1) : WellFormed(flat[m])) /\ OnlyDefectIs(flat[n], k))
                      => result = CDCFailure("unexpected entity type in CDC response", k)

\* The second element of a response holds the unknown key next to a registry
\* key, and the call failed naming the unknown key.
C10_Witness ==
    /\ CDCAnswered
    /\ Len(Flat(responses[1].body)) = 2
    /\ "Foo" \in UnknownKeys(Flat(responses[1].body)[2])
    /\ "Estimate" \in Flat(responses[1].body)[2].keys
    /\ result = CDCFailure("unexpected entity type in CDC response", "Foo")

\* ---------------------------------------------------------------------------

\* The call returned an aggregate.
CDCSucceeded == CDCAnswered /\ result.err = "none"

\* The elements of the response of the call, in response order.
ResponseElements == Flat(responses[1].body)

\* The keys of an element that are not metadata keys.
NonMetaKeys(elem) == elem.keys \ knownMetaKeys

\* C11: whenever one element of the response carries two or more
\* non-metadata keys, GetChangedEntities fails and returns no aggregate.
C11_TwoKeysFail ==
    CDCAnswered =>
        \A n \in 1..Len(ResponseElements) :
            Cardinality(NonMetaKeys(ResponseElements[n])) >= 2
                => (result.err # "none" /\ result.changed.isNil)

\* An element held two registry keys whose arrays both decode and no other
\* defect; the call failed on the count of matched keys.
C11_Witness ==
    /\ CDCAnswered
    /\ \E n \in 1..Len(ResponseElements) :
          /\ NonMetaKeys(ResponseElements[n]) = {"Estimate", "Customer"}
          /\ ResponseElements[n].data["Estimate"].ok
    /\ result = CDCFailure("CDC QueryResponse element contained more than one entity type", "")

\* The raw records found under key T over a list of elements, in order.
RECURSIVE RecordsUnder(_, _)
RecordsUnder(elems, T) ==
    IF elems = <<>>
    THEN <<>>
    ELSE (IF T \in Head(elems).keys THEN Head(elems).data[T].recs ELSE <<>>)
            \o RecordsUnder(Tail(elems), T)

\* The id carried by an entry of a result sequence, whichever variant holds it.
EntryId(e) == IF e.Deleted.isNil THEN e.Entity.val.ID ELSE e.Deleted.val.ID

\* C12: on success, for every registry type T the sequence of T in the
\* result has one entry per raw record found under key T in the response,
\* in response order over wrappers and elements: same length, and the k-th
\* entry carries the id of the k-th record.
C12_Concatenation ==
    CDCSucceeded =>
        \A T \in Registry :
            LET raw == RecordsUnder(ResponseElements, T)
                out == result.changed.val[T]
            IN /\ Len(out) = Len(raw)
               /\ \A k \in 1..Len(raw) : EntryId(out[k]) = raw[k].Id

\* Two elements of a response both held an Estimate array; every record of
\* both, the repeated ids included, is in the result.
C12_Witness ==
    /\ CDCSucceeded
    /\ Len(ResponseElements) = 2
    /\ \A n \in 1..2 : "Estimate" \in ResponseElements[n].keys
    /\ Len(result.changed.val["Estimate"]) = 2 * Len(ArrayOf("Estimate"))

\* The registry types that are a key of some element of the response.
TypesInResponse ==
    {T \in Registry : \E n \in 1..Len(ResponseElements) : T \in ResponseElements[n].keys}

\* C13: on success, every registry type that is a key of no element of the
\* response has an empty sequence in the result.
C13_AbsentTypesEmpty ==
    CDCSucceeded =>
        \A T \in Registry \ TypesInResponse : result.changed.val[T] = <<>>

\* Only Estimate and Customer buckets were returned; both are in the result
\* and Invoices, Bills and Vendors are empty.
C13_Witness ==
    /\ CDCSucceeded
    /\ TypesInResponse = {"Estimate", "Customer"}
    /\ result.changed.val["Estimate"] # <<>>
    /\ result.changed.val["Customer"] # <<>>
    /\ \A T \in {"Invoice", "Bill", "Vendor"} : result.changed.val[T] = <<>>

\* The entity types the caller asked for.
Requested == {entities[k] : k \in 1..Len(entities)}

\* C14: on success, every entity type that was not in the entities list
\* passed to the call has an empty sequence in the result, even when the
\* response holds a bucket for it.
C14_UnrequestedEmpty ==
    CDCSucceeded =>
        \A T \in Registry \ Requested : result.changed.val[T] = <<>>

\* Every entry of every sequence of an aggregate.
Entries(agg) == UNION {{agg[T][k] : k \in 1..Len(agg[T])} : T \in Registry}

\* C15: every MaybeDeleted value of a successfully returned result has
\* exactly one of Deleted and Entity set.
C15_ExactlyOneVariant ==
    CDCSucceeded =>
        \A e \in Entries(result.changed.val) : e.Deleted.isNil # e.Entity.isNil

\* A result holds an entry of each variant.
C15_Witness ==
    /\ CDCSucceeded
    /\ \E e \in Entries(result.changed.val) : ~e.Deleted.isNil /\ e.Entity.isNil
    /\ \E e \in Entries(result.changed.val) : e.Deleted.isNil /\ ~e.Entity.isNil

\* ---------------------------------------------------------------------------

\* A decoder has returned.
Decoded(o) == op = o /\ pc = "done"

\* C16: a raw record decodes to the Deleted variant, carrying the record's
\* id and status, exactly when its status is "deleted"; with no status or a
\* status of any other value it decodes to the Entity variant.
C16_TombstoneIffDeleted ==
    Decoded("Record") =>
        IF input.status = "deleted"
        THEN /\ output.Deleted = Ptr([ID |-> input.Id, Status |-> "deleted"])
             /\ output.Entity.isNil
        ELSE /\ output.Deleted.isNil
             /\ output.Entity = Ptr([ID |-> input.Id])

\* A record whose status is another value than "deleted" was decoded into
\* the Entity variant.
C16_Witness ==
    /\ Decoded("Record")
    /\ input.status = "Deleted"
    /\ output.Deleted.isNil
    /\ ~output.Entity.isNil

\* ---------------------------------------------------------------------------

\* C17: if some element of the response does not decode (it is no object,
\* has an unknown key, more than one entity key, or an array that does not
\* decode), the call returns an error and no aggregate, whatever was decoded
\* before it.
C17_FailureDiscardsAll ==
    CDCAnswered =>
        ((\E n \in 1..Len(ResponseElements) : ~WellFormed(ResponseElements[n]))
            => (result.err # "none" /\ result.changed.isNil))

\* The first element of a response was decoded into the accumulator, the
\* second one failed.
C17_Witness ==
    /\ CDCAnswered
    /\ Len(ResponseElements) = 2
    /\ WellFormed(ResponseElements[1])
    /\ "Estimate" \in ResponseElements[1].keys
    /\ "Customer" \in ResponseElements[2].keys
    /\ ~WellFormed(ResponseElements[2])
    /\ result.err # "none"
    /\ result.changed.isNil

\* ---------------------------------------------------------------------------

\* The two example texts of the specification.
LongExample == <<"2014-11-06", "T", "15:37:25", "-08:00">>
BareExample == <<"2014-12-06">>

\* The input is a JSON string whose text is a timestamp of the long form or
\* a bare date (of a day that exists).
ValidDay(d) == d \in Days \ {"2014-02-30"}
IsLong(b) == \E s \in LongTexts : b = Quoted(s) /\ ValidDay(s[1])
IsBare(b) == \E s \in BareTexts : b = Quoted(s) /\ ValidDay(s[1])

\* C18 as stated: decoding accepts both forms, and String() renders the text
\* that was decoded, for the long timestamp and for the bare date.
C18_RoundTrip ==
    (Decoded("Date") /\ input \in {Quoted(LongExample), Quoted(BareExample)})
        => (~output.err /\ output.String = StripQuotes(input))

\* C18 as amended: decoding accepts both forms; String() renders a long-form
\* text as it was (an offset of -00:00 as +00:00), and a bare date as that
\* date at midnight with offset +00:00 in the long form.
C18_LongFormRendering ==
    Decoded("Date") =>
        LET text == StripQuotes(input) IN
        /\ IsLong(input) =>
              /\ ~output.err
              /\ output.String =
                    IF text[4] = "-00:00" THEN <<text[1], "T", text[3], "+00:00">> ELSE text
        /\ IsBare(input) =>
              /\ ~output.err
              /\ output.String = <<text[1], "T", "00:00:00", "+00:00">>
        /\ input = Quoted(LongExample) => output.String = LongExample

\* The example bare date was decoded and rendered in the long form.
C18_Witness ==
    /\ Decoded("Date")
    /\ input = Quoted(BareExample)
    /\ ~output.err
    /\ output.String = <<"2014-12-06", "T", "00:00:00", "+00:00">>

\* ---------------------------------------------------------------------------

\* The raw rows of the report that have a ColData key, in order, and those
\* that have none.
ColDataRows == SelectSeq(input, LAMBDA r : r.hasColData)
OtherRows == SelectSeq(input, LAMBDA r : ~r.hasColData)

\* The elements of a ColData array with an id, and those without, in order.
WithId(colData) == SelectSeq(colData, LAMBDA e : e.hasId)
WithoutId(colData) == SelectSeq(colData, LAMBDA e : ~e.hasId)

\* C19: a successfully decoded report has one entry of Rows per raw row with
\* a ColData key, in the order of the raw rows; in each the element with an
\* id is the RowHeader (the zero header when there is none) and the elements
\* without id are the Values in their order; a row without ColData adds no
\* entry and Total holds the group, type and Summary.ColData of the last
\* such row.
C19_RowsAndTotal ==
    (Decoded("TrialBalance") /\ ~output.err) =>
        /\ Len(output.tb.Rows) = Len(ColDataRows)
        /\ \A k \in 1..Len(ColDataRows) :
              LET ids == WithId(ColDataRows[k].ColData)
                  vals == WithoutId(ColDataRows[k].ColData)
                  row == output.tb.Rows[k]
              IN /\ Len(ids) = 1 => row.RowHeader = [ID |-> ids[1].id, Value |-> ids[1].value]
                 /\ Len(ids) = 0 => row.RowHeader = [ID |-> "", Value |-> ""]
                 /\ Len(row.Values) = Len(vals)
                 /\ \A j \in 1..Len(vals) : row.Values[j].Value = vals[j].value
        /\ IF OtherRows = <<>>
           THEN output.tb.Total = [Group |-> "", Type |-> "", Rows |-> <<>>]
           ELSE LET last == OtherRows[Len(OtherRows)] IN
                /\ output.tb.Total.Group = last.group
                /\ output.tb.Total.Type = last.type
                /\ Len(output.tb.Total.Rows) = Len(last.Summary)
                /\ \A j \in 1..Len(last.Summary) :
                      output.tb.Total.Rows[j].Value = last.Summary[j].value

\* A report of a data row (a value, then the account) and a summary row was
\* decoded into one row and the total.
C19_Witness ==
    /\ Decoded("TrialBalance")
    /\ ~output.err
    /\ Len(input) = 2
    /\ input[1].hasColData /\ Len(input[1].ColData) = 2
    /\ ~input[1].ColData[1].hasId /\ input[1].ColData[2].hasId
    /\ ~input[2].hasColData
    /\ Len(output.tb.Rows) = 1
    /\ output.tb.Rows[1].RowHeader.ID = "35"
    /\ Len(output.tb.Rows[1].Values) = 1
    /\ output.tb.Total.Group = "GrandTotal"

\* ---------------------------------------------------------------------------

\* s ends with t.
EndsWith(s, t) == Len(t) <= Len(s) /\ SubSeq(s, Len(s) - Len(t) + 1, Len(s)) = t

\* C20: in a FindX call the k-th page request (the (k+1)-th request of the
\* call) has STARTPOSITION (k-1)*P + 1, MAXRESULTS P and ORDERBY Id; a request
\* is issued only when every earlier request of the call has been answered
\* without failure, and the loop stands before its next page request only
\* with the records of the last page response appended to the accumulator
\* and the offset advanced by P.
C20_PagesInOrder ==
    op = "Find" =>
        /\ Len(responses) = Len(requests)
        /\ \A k \in 1..(Len(requests) - 1) :
              /\ requests[k + 1].kind = "page"
              /\ requests[k + 1].startPosition = (k - 1) * queryPageSize + 1
              /\ requests[k + 1].maxResults = queryPageSize
              /\ requests[k + 1].orderBy = "Id"
              /\ ~responses[k].err
        /\ (pc = "page" /\ Len(requests) >= 2) =>
              /\ ~responses[Len(responses)].err
              /\ ~resp.Classes.isNil
              /\ EndsWith(classes.elems, resp.Classes.elems)
              /\ i = (Len(requests) - 1) * queryPageSize

\* The third page request of a call was issued, after two pages had been
\* appended.
C20_Witness ==
    /\ op = "Find"
    /\ Len(requests) = 4
    /\ requests[4].startPosition = 2 * queryPageSize + 1
    /\ Len(classes.elems) >= 2

\* ---------------------------------------------------------------------------

\* C21: when the count request reports total N, a FindX call issues at most
\* 1 + ceil(N/P) requests, whatever the page responses hold.
C21_RequestsBounded ==
    CountAnswered => Len(requests) <= 1 + CeilDiv(CountTotal, queryPageSize)

\* ---------------------------------------------------------------------------

\* The three pagination keys by name.
PaginationKeys == {"startPosition", "maxResults", "totalCount"}

\* An element the decoder has to accept when the pagination keys are
\* ignored: an object whose other keys are at most one registry name, with
\* an array that decodes.
AcceptableBesidesPagination(elem) ==
    /\ elem.isObject
    /\ (elem.keys \ PaginationKeys) \subseteq Registry
    /\ Cardinality(elem.keys \ PaginationKeys) <= 1
    /\ \A k \in elem.keys \ PaginationKeys : elem.data[k].ok

\* The elements of a list that have a key other than the pagination keys.
RECURSIVE WithEntityKeys(_)
WithEntityKeys(elems) ==
    IF elems = <<>>
    THEN <<>>
    ELSE (IF Head(elems).keys \subseteq PaginationKeys THEN <<>> ELSE <<Head(elems)>>)
            \o WithEntityKeys(Tail(elems))

\* C22: startPosition, maxResults and totalCount are ignored: no failure
\* names one of them, an element with one entity key next to them is
\* accepted like one without them, and an element that holds only such keys
\* is accepted and adds nothing to the result.
C22_PaginationKeysIgnored ==
    CDCAnswered =>
        /\ result.key \notin PaginationKeys
        /\ (\A n \in 1..Len(ResponseElements) : AcceptableBesidesPagination(ResponseElements[n]))
              => /\ CDCSucceeded
                 /\ \A T \in Registry :
                       Len(result.changed.val[T])
                           = Len(RecordsUnder(WithEntityKeys(ResponseElements), T))

\* A response of an element with only totalCount and an element with an
\* Estimate array next to totalCount was decoded into the Estimate records.
C22_Witness ==
    /\ CDCSucceeded
    /\ Len(ResponseElements) = 2
    /\ ResponseElements[1].keys = {"totalCount"}
    /\ ResponseElements[2].keys = {"Estimate", "totalCount"}
    /\ Len(result.changed.val["Estimate"]) = Len(ArrayOf("Estimate"))

\* C23: the key maxResult (singular) in an element is excluded from the
\* entity-type check like maxResults: the call does not fail because of it.
C23_SingularSkipped ==
    CDCAnswered =>
        /\ result.key # "maxResult"
        /\ (\A n \in 1..Len(ResponseElements) :
               /\ ResponseElements[n].isObject
               /\ (ResponseElements[n].keys \ {"maxResult"}) \subseteq Registry
               /\ Cardinality(ResponseElements[n].keys \ {"maxResult"}) <= 1
               /\ \A k \in ResponseElements[n].keys \ {"maxResult"} :
                     ResponseElements[n].data[k].ok)
              => CDCSucceeded

\* ---------------------------------------------------------------------------

\* C30: for the response the call received, every order of visiting the keys
\* of its elements gives the verdict of the call (success or failure) and,
\* on success, its aggregate.
C30_OrderIndependent ==
    CDCAnswered =>
        \A other \in CDCOutcomes(responses[1].body) :
            /\ (other.err = "none") <=> (result.err = "none")
            /\ other.err = "none" => other.changed = result.changed
            /\ other.changed.isNil <=> result.changed.isNil

\* The call failed on a response for which another visiting order fails
\* with another error.
C30_Witness ==
    /\ CDCAnswered
    /\ result.err = "failed to unmarshal"
    /\ \E other \in CDCOutcomes(responses[1].body) :
          other.err = "unexpected entity type in CDC response"

\* ---------------------------------------------------------------------------

UpdateOps == {"UpdateClass", "UpdateCompanyInfo"}

\* The read of the call was answered without failure.
ReadAnswered == Len(responses) >= 1 /\ ~responses[1].err

\* The first request of the call is the read of the entity: by the id the
\* caller gave, the company's by the realm.
IsRead(req) ==
    /\ req.method = "GET"
    /\ CASE op = "UpdateClass" -> req.path = "class/" /\ req.id = input.ID
         [] op = "VoidSalesReceipt" -> req.path = "salesreceipt/" /\ req.id = input.ID
         [] OTHER -> req.path = "companyinfo/" /\ req.id = realm

C25_EmptyIdNoRequest ==
    (op \in UpdateOps /\ input.ID = "") =>
        /\ requests = <<>>
        /\ pc \in {"read", "done"}
        /\ pc = "done" => (result.err # "none" /\ result.entity.isNil)

\* C25 as amended: every UpdateX but UpdateCompanyInfo, called with an entity
\* whose ID is empty, returns an error and issues no request;
\* UpdateCompanyInfo does not look at the ID: it reads the company by the
\* realm and goes on to the POST when the read succeeds.
C25_EmptyIdNoRequestButCompanyInfo ==
    /\ (op = "UpdateClass" /\ input.ID = "") =>
          /\ requests = <<>>
          /\ pc \in {"read", "done"}
          /\ pc = "done" => result = EntityFailure("missing class id")
    /\ (op = "UpdateCompanyInfo" /\ pc # "read") =>
          /\ IsRead(requests[1])
          /\ ReadAnswered => (pc = "post" \/ Len(requests) = 2)

\* An update of an object without ID has returned its error.
C25_Witness ==
    /\ op = "UpdateClass" /\ pc = "done"
    /\ input.ID = ""
    /\ requests = <<>>
    /\ result = EntityFailure("missing class id")

\* C26: DeleteX with an empty ID or an empty SyncToken returns an error and
\* issues no request; otherwise it issues exactly one request, a POST with
\* operation delete whose payload carries the caller's SyncToken, and no
\* read.
C26_DeleteOnePost ==
    op = "DeleteClass" =>
        /\ entity = input
        /\ pc # "done" => requests = <<>>
        /\ pc = "done" =>
              IF input.ID = "" \/ input.SyncToken = ""
              THEN requests = <<>> /\ result.err \notin {"none", "pending"}
              ELSE /\ Len(requests) = 1
                   /\ requests[1].method = "POST"
                   /\ requests[1].operation = "delete"
                   /\ requests[1].payload = input
                   /\ requests[1].payload.SyncToken = input.SyncToken

\* A delete with ID and SyncToken was posted once and answered.
C26_Witness ==
    /\ op = "DeleteClass" /\ pc = "done"
    /\ input.ID # "" /\ input.SyncToken # ""
    /\ Len(requests) = 1
    /\ result = Done

\* C27: VoidX with an empty ID fails with no request; otherwise it reads the
\* entity by id whatever SyncToken the caller gave and, only when the read
\* has succeeded, issues one POST with operation void whose payload carries
\* the SyncToken read.
C27_VoidReadsToken ==
    op = "VoidSalesReceipt" =>
        /\ Len(requests) <= 2
        /\ input.ID = "" =>
              /\ requests = <<>>
              /\ pc = "done" => result = EntityFailure("missing sales receipt id")
        /\ Len(requests) >= 1 => IsRead(requests[1])
        /\ Len(requests) = 2 =>
              /\ ReadAnswered
              /\ requests[2].method = "POST"
              /\ requests[2].operation = "void"
              /\ requests[2].payload.SyncToken = responses[1].entity.SyncToken
        /\ (pc = "done" /\ input.ID # "") =>
              IF responses[1].err
              THEN Len(requests) = 1 /\ result = EntityFailure("transport")
              ELSE Len(requests) = 2

\* A void of an object without SyncToken was posted with the token read.
C27_Witness ==
    /\ op = "VoidSalesReceipt" /\ pc = "done"
    /\ input.ID # "" /\ input.SyncToken = ""
    /\ Len(requests) = 2
    /\ requests[2].payload.SyncToken = "2"
    /\ result = Done

\* The caller's object is as it was at the call, but for its SyncToken.
OnlySyncTokenChanged == [entity EXCEPT !.SyncToken = input.SyncToken] = input

\* C28 as stated: UpdateX changes at most the SyncToken of the caller's
\* object, sets it to the value read as soon as the read has succeeded and
\* leaves it so when the POST fails; with an empty ID or a failed read the
\* object is not changed at all.
C28_OnlySyncToken ==
    op \in UpdateOps =>
        /\ OnlySyncTokenChanged
        /\ (input.ID # "" /\ ReadAnswered) => entity.SyncToken = responses[1].entity.SyncToken
        /\ (input.ID = "" \/ ~ReadAnswered) => entity = input

\* C28 as amended: every UpdateX but UpdateCompanyInfo behaves as stated;
\* UpdateCompanyInfo, whatever the ID, leaves the object unchanged when the
\* read fails and otherwise sets ID and SyncToken to the values read and
\* changes no other field.
C28_OnlySyncTokenOrCompanyId ==
    /\ op = "UpdateClass" =>
          /\ OnlySyncTokenChanged
          /\ (input.ID # "" /\ ReadAnswered) => entity.SyncToken = responses[1].entity.SyncToken
          /\ (input.ID = "" \/ ~ReadAnswered) => entity = input
    /\ op = "UpdateCompanyInfo" =>
          IF ReadAnswered
          THEN entity = [input EXCEPT !.ID = responses[1].entity.ID,
                                      !.SyncToken = responses[1].entity.SyncToken]
          ELSE entity = input

\* An update whose POST failed has left the SyncToken read in the caller's
\* object.
C28_Witness ==
    /\ op = "UpdateClass" /\ pc = "done"
    /\ Len(responses) = 2 /\ responses[2].err
    /\ input.SyncToken = "1"
    /\ entity.SyncToken = "3"
    /\ entity.Name = input.Name


\* C29: during FindX the records already appended to the result are not
\* changed by the decoding of later pages into the response variable, the
\* data behind their pointer fields included: the MetaData behind every
\* record of the accumulator is still the one its page sent with it.
C29_AppendedRecordsKept ==
    op = "Find" =>
        /\ Len(metas) = Len(classes.elems)
        /\ \A k \in 1..Len(metas) : heap[metas[k]] = classes.elems[k]

====
